---- MODULE Spec2Model ----
(***************************************************************************)
(* Model of the chat client in src/index.tsx (the module that starts at    *)
(* line 312: persistent history, markdown rendering, clear button).       *)
(*                                                                         *)
(* A JavaScript string is a sequence of one-character strings, so that     *)
(* trim, toLowerCase, startsWith, substring and the code-block regular    *)
(* expression are computed as the code computes them.  An object is a      *)
(* record whose DOMAIN holds exactly the properties the code sets; an      *)
(* optional property that was not set is absent from the DOMAIN.           *)
(* Date.now() is not modelled: an id is the prefix the code gives it and   *)
(* the timestamp property is left out of every message.                    *)
(***************************************************************************)
EXTENDS Integers, Sequences, FiniteSets, TLC

\* ------------------------------------------------------------------ bounds
MaxStore == 3       \* the user stops typing once the log holds MaxStore - 1 entries
MaxChunks == 2      \* fragments one stream delivers at most
MaxNodes == 5       \* without a credential the user stops submitting at MaxNodes bubbles

\* ----------------------------------------------------------- string basics
\* the character U+0060, which a TLA+ string literal cannot hold
Backtick == "BACKTICK"

WhiteSpace == {" ", "\n", "\t"}

UpperCase == <<"A","B","C","D","E","F","G","H","I","J","K","L","M","N","O","P","Q","R","S","T","U","V","W","X","Y","Z">>
LowerCase == <<"a","b","c","d","e","f","g","h","i","j","k","l","m","n","o","p","q","r","s","t","u","v","w","x","y","z">>
Digits == <<"0","1","2","3","4","5","6","7","8","9">>

Range(f) == {f[i] : i \in DOMAIN f}

\* \w of the regular expression
WordChars == Range(UpperCase) \cup Range(LowerCase) \cup Range(Digits) \cup {"_"}

SetMin(s) == CHOOSE m \in s : \A n \in s : m <= n
SetMax(s) == CHOOSE m \in s : \A n \in s : m >= n

\* trim left out
Trim_Missing(s) == s

\* String.prototype.trim
Trim(s) ==
  LET keep == {i \in 1..Len(s) : s[i] \notin WhiteSpace}
  IN  IF keep = {} THEN <<>> ELSE SubSeq(s, SetMin(keep), SetMax(keep))

LowerChar(c) ==
  IF c \in Range(UpperCase)
    THEN LowerCase[CHOOSE i \in 1..Len(UpperCase) : UpperCase[i] = c]
    ELSE c

\* String.prototype.toLowerCase
ToLowerCase(s) == [i \in 1..Len(s) |-> LowerChar(s[i])]

\* String.prototype.startsWith
StartsWith(s, prefix) ==
  Len(s) >= Len(prefix) /\ SubSeq(s, 1, Len(prefix)) = prefix

\* String.prototype.substring(from), from counted from 0
Substring(s, from) == SubSeq(s, from + 1, Len(s))

\* String.prototype.substring(from, to), both counted from 0
Substring2(s, from, to) == SubSeq(s, from + 1, to)

\* ------------------------------------------------------- program constants
IMAGE_GENERATION_KEYWORDS ==
  << <<"g","e","n","e","r","a","t","e"," ","i","m","a","g","e"," ","o","f">>, <<"c","r","e","a","t","e"," ","a","n"," ","i","m","a","g","e"," ","o","f">>, <<"d","r","a","w"," ","a"," ","p","i","c","t","u","r","e"," ","o","f">>,
     <<"d","r","a","w"," ","a","n"," ","i","m","a","g","e"," ","o","f">>, <<"s","h","o","w"," ","m","e"," ","a","n"," ","i","m","a","g","e"," ","o","f">>, <<"m","a","k","e"," ","a","n"," ","i","m","a","g","e"," ","o","f">> >>

ThinkingText == <<"<","i",">","A","I"," ","i","s"," ","t","h","i","n","k","i","n","g",".",".",".","<","/","i",">">>
EmptyResponseText == <<"[","A","I"," ","g","a","v","e"," ","a","n"," ","e","m","p","t","y"," ","r","e","s","p","o","n","s","e","]">>
EmptyResponseHtml == <<"<","i",">","[","A","I"," ","g","a","v","e"," ","a","n"," ","e","m","p","t","y"," ","r","e","s","p","o","n","s","e","]","<","/","i",">">>
NoApiKeyStartupText == <<"C","o","n","f","i","g","u","r","a","t","i","o","n"," ","e","r","r","o","r",":"," ","A","P","I"," ","K","e","y"," ","i","s"," ","m","i","s","s","i","n","g","."," ","C","a","n","n","o","t"," ","c","o","n","n","e","c","t"," ","t","o"," ","A","I"," ","s","e","r","v","i","c","e","s",".">>
NoApiKeySendText == <<"C","a","n","n","o","t"," ","s","e","n","d"," ","m","e","s","s","a","g","e",":"," ","A","P","I"," ","K","e","y"," ","i","s"," ","n","o","t"," ","c","o","n","f","i","g","u","r","e","d",".">>
TextFallbackReason == <<"C","o","u","l","d"," ","n","o","t"," ","g","e","t"," ","a"," ","r","e","s","p","o","n","s","e"," ","f","r","o","m"," ","t","h","e"," ","A","I",".">>
ImageFallbackReason == <<"F","a","i","l","e","d"," ","t","o"," ","g","e","n","e","r","a","t","e"," ","i","m","a","g","e",".">>
NoImageDataText == <<"S","o","r","r","y",","," ","I"," ","c","o","u","l","d"," ","n","o","t"," ","g","e","n","e","r","a","t","e"," ","a","n"," ","i","m","a","g","e","."," ","T","h","e"," ","i","m","a","g","e"," ","d","a","t","a"," ","m","i","g","h","t"," ","b","e"," ","m","i","s","s","i","n","g",".">>
ImageErrorPrefix == <<"E","r","r","o","r"," ","g","e","n","e","r","a","t","i","n","g"," ","i","m","a","g","e",":"," ">>
ChatClearedText == <<"<","i",">","C","h","a","t"," ","h","i","s","t","o","r","y"," ","c","l","e","a","r","e","d",".","<","/","i",">">>
DataUriPrefix == <<"d","a","t","a",":","i","m","a","g","e","/","j","p","e","g",";","b","a","s","e","6","4",",">>
AltPrefix == <<"G","e","n","e","r","a","t","e","d"," ","i","m","a","g","e"," ","f","o","r",":"," ">>
ErrorMarker == <<"*","*","E","r","r","o","r",":","*","*"," ">>
PlainText == <<"p","l","a","i","n","t","e","x","t">>
GeneratingPrefix == <<"<","i",">","G","e","n","e","r","a","t","i","n","g"," ","a","n"," ","i","m","a","g","e"," ","f","o","r",":"," ","\"">>
GeneratingSuffix == <<"\"",".",".",".","<","/","i",">">>
\* message of the TypeError raised by reading .image of undefined
UndefinedImageMessage == <<"C","a","n","n","o","t"," ","r","e","a","d"," ","p","r","o","p","e","r","t","i","e","s"," ","o","f"," ","u","n","d","e","f","i","n","e","d"," ","(","r","e","a","d","i","n","g"," ","'","i","m","a","g","e","'",")">>

\* --------------------------------------------------------------- rendering
Has(obj, field) == field \in DOMAIN obj

\* JavaScript truthiness of an optional string property
Truthy(obj, field) == Has(obj, field) /\ obj[field] # <<>>

\* JavaScript truthiness of the optional isError property
IsError(message) == Has(message, "isError") /\ message.isError

\* s holds pat at position p (counted from 1) when case is ignored
HoldsAt(s, pat, p) ==
  /\ p + Len(pat) - 1 <= Len(s)
  /\ \A k \in 1..Len(pat) : LowerChar(s[p + k - 1]) = pat[k]

ScriptOpen == <<"<","s","c","r","i","p","t">>
ScriptClose == <<"<","/","s","c","r","i","p","t",">">>

\* text.replace(/<script\b[^<]*(?:(?!<\/script>)<[^<]*)*<\/script>/gi, ''):
\* every region from "<script" at a word boundary to the next "</script>" is removed
RECURSIVE StripScripts(_)
StripScripts(text) ==
  LET closes(p) == {e \in (p + 7)..Len(text) : text[e] = "<" /\ HoldsAt(text, ScriptClose, e)}
      opens == {p \in 1..Len(text) :
                  /\ text[p] = "<"
                  /\ HoldsAt(text, ScriptOpen, p)
                  /\ (p + 7 > Len(text) \/ text[p + 7] \notin WordChars)
                  /\ closes(p) # {}}
  IN  IF opens = {} THEN text
      ELSE SubSeq(text, 1, SetMin(opens) - 1)
             \o StripScripts(Substring(text, SetMin(closes(SetMin(opens))) + 8))

\* parseMarkdown: the HTML marked produces for the sanitized text
parseMarkdown(text) == [marked |-> StripScripts(text)]

createMessageDiv(message) ==
  [id |-> message.id, role |-> message.role, error |-> IsError(message), children |-> <<>>]

\* the element addMessageToChat appends to the container
addMessageToChat(message) ==
  LET messageDiv == createMessageDiv(message)
      contentDiv == [tag |-> "div", cls |-> "markdown-content",
                     errorText |-> IsError(message),
                     html |-> IF IsError(message)
                                THEN parseMarkdown(ErrorMarker \o message.textContent)
                                ELSE parseMarkdown(message.textContent)]
      imgElement == [tag |-> "img", src |-> message.imageUrl,
                     alt |-> IF Truthy(message, "altText") THEN message.altText
                             ELSE <<"G","e","n","e","r","a","t","e","d"," ","i","m","a","g","e">>]
  IN  IF Truthy(message, "textContent")
        THEN [messageDiv EXCEPT !.children = <<contentDiv>>]
      ELSE IF Truthy(message, "imageUrl")
        THEN [messageDiv EXCEPT !.children = <<imgElement>>]
      ELSE messageDiv

\* ---------------------------------------------------------- code-block regex
FenceAt(s, p) == p >= 1 /\ p + 2 <= Len(s) /\ s[p] = Backtick /\ s[p + 1] = Backtick /\ s[p + 2] = Backtick

\* end of the greedy run of characters of class cls that starts at position i
RunEnd(s, i, cls) ==
  SetMin({j \in i..(Len(s) + 1) : j > Len(s) \/ s[j] \notin cls})

\* where group 2 may begin for the opening fence at p: after (\w*) and \s*
contentStart(fullText, p) ==
  RunEnd(fullText, RunEnd(fullText, p + 3, WordChars), WhiteSpace)

\* the end of the input taken for a closing fence
closingFences_OrEndOfInput(fullText, p) ==
  {e \in contentStart(fullText, p)..Len(fullText) : FenceAt(fullText, e)}
    \cup {Len(fullText) + 1}

\* the fences that can close the block opened at p
closingFences(fullText, p) ==
  {e \in contentStart(fullText, p)..Len(fullText) : FenceAt(fullText, e)}

\* the positions after lastIndex at which the regular expression matches
matchStarts(fullText, lastIndex) ==
  {p \in (lastIndex + 1)..Len(fullText) :
     FenceAt(fullText, p) /\ closingFences(fullText, p) # {}}

\* end of the lazy group 2 that began at c, for the closing fence at e:
\* the trailing \n?\s* takes the white space that precedes the fence
contentEnd(fullText, c, e) ==
  SetMin({y \in c..e : \A j \in y..(e - 1) : fullText[j] \in WhiteSpace}) - 1

\* the match array for the opening fence at p, content from c, closing fence at e
matchArray(fullText, p, c, e) ==
  [found |-> TRUE,
   index |-> p - 1,
   lang |-> SubSeq(fullText, p + 3, RunEnd(fullText, p + 3, WordChars) - 1),
   body |-> SubSeq(fullText, c, contentEnd(fullText, c, e)),
   lastIndex |-> e + 2]

\* the leftmost match, which opens at p
matchAt(fullText, p) ==
  matchArray(fullText, p, contentStart(fullText, p), SetMin(closingFences(fullText, p)))

\* codeBlockRegex.exec(fullText) with codeBlockRegex.lastIndex = lastIndex:
\* /```(\w*)\s*\n?([\s\S]*?)\n?\s*```/g
codeBlockRegexExec(fullText, lastIndex) ==
  IF matchStarts(fullText, lastIndex) = {} THEN [found |-> FALSE]
  ELSE matchAt(fullText, SetMin(matchStarts(fullText, lastIndex)))

proseDiv(text) == [tag |-> "div", cls |-> "markdown-content", errorText |-> FALSE,
                   html |-> parseMarkdown(text)]

\* if (textContent) { ... messageDiv.appendChild(textDiv) } behind its range test
appendProse(children, inRange, textContent) ==
  IF inRange /\ textContent # <<>> THEN Append(children, proseDiv(textContent))
  ELSE children

\* the pre element built for a code block
preElement(language, codeContent, prismThrows) ==
  [tag |-> "pre", language |-> language, code |-> codeContent,
   highlighted |-> ~prismThrows]

RECURSIVE scanCodeBlocks(_, _, _, _)

\* if (codeContent) { ... } and the next turn of the loop
appendCode(fullText, lastIndex, children, prismThrows, match, pre) ==
  IF pre.code # <<>> /\ prismThrows
    THEN [children |-> Append(children, pre), lastIndex |-> lastIndex, threw |-> TRUE]
  ELSE scanCodeBlocks(fullText, match.lastIndex,
                      IF pre.code # <<>> THEN Append(children, pre) ELSE children,
                      prismThrows)

\* the body of the while loop for one match
whileBody(fullText, lastIndex, children, prismThrows, match) ==
  IF ~match.found
    THEN [children |-> children, lastIndex |-> lastIndex, threw |-> FALSE]
  ELSE appendCode(fullText, lastIndex,
                  appendProse(children, match.index > lastIndex,
                              Trim(Substring2(fullText, lastIndex, match.index))),
                  prismThrows, match,
                  preElement(IF Trim(match.lang) # <<>> THEN Trim(match.lang)
                             ELSE PlainText,
                             Trim(match.body), prismThrows))

\* the while loop of formatAndDisplayAIResponse; prismThrows: Prism.highlightElement raises
scanCodeBlocks(fullText, lastIndex, children, prismThrows) ==
  whileBody(fullText, lastIndex, children, prismThrows,
            codeBlockRegexExec(fullText, lastIndex))

\* if (!contentAdded) { ... messageDiv.appendChild(fallbackDiv) }
appendFallback(children, trimmedFullText) ==
  IF children # <<>> THEN children
  ELSE <<proseDiv(IF trimmedFullText = <<>> THEN EmptyResponseHtml
                  ELSE trimmedFullText)>>

\* what follows the while loop, for the outcome scan of the loop
afterLoop(fullText, scan) ==
  IF scan.threw THEN scan
  ELSE [children |-> appendFallback(
                       appendProse(scan.children, scan.lastIndex < Len(fullText),
                                   Trim(Substring(fullText, scan.lastIndex))),
                       Trim(fullText)),
        lastIndex |-> scan.lastIndex, threw |-> FALSE]

\* the children formatAndDisplayAIResponse leaves in messageDiv, and whether it threw
formatAndDisplayAIResponse(fullText, prismThrows) ==
  afterLoop(fullText, scanCodeBlocks(fullText, 0, <<>>, prismThrows))

\* ----------------------------------------------------------- classification
\* the for loop over IMAGE_GENERATION_KEYWORDS in handleSendMessage, from keyword k on
RECURSIVE matchKeyword(_, _)
matchKeyword(userMessageText, k) ==
  IF k > Len(IMAGE_GENERATION_KEYWORDS)
    THEN [isImageRequest |-> FALSE, imagePrompt |-> <<>>]
  ELSE IF StartsWith(ToLowerCase(userMessageText), IMAGE_GENERATION_KEYWORDS[k])
    THEN [isImageRequest |-> TRUE,
          imagePrompt |-> Trim(Substring(userMessageText, Len(IMAGE_GENERATION_KEYWORDS[k])))]
  ELSE matchKeyword(userMessageText, k + 1)

\* the test of the prompt left out
dispatchesImage_AnyMatch(userMessageText) ==
  matchKeyword(userMessageText, 1).isImageRequest

\* isImageRequest && imagePrompt
dispatchesImage(userMessageText) ==
  LET m == matchKeyword(userMessageText, 1)
  IN  m.isImageRequest /\ m.imagePrompt # <<>>

\* error instanceof Error ? error.message : fallback
errorMessageContent(error, fallback) ==
  IF error.isErrorInstance THEN error.message ELSE fallback

\* ------------------------------------------------------------ environment
\* what the user types into messageInput
Inputs ==
  { <<"h","i">>, <<" "," ">>, <<" ","G","e","n","e","r","a","t","e"," ","I","m","a","g","e"," ","O","f"," ","a"," ","c","a","t"," ">> }

\* chunk.text of the fragments a stream delivers
Fragments == { <<>>, <<" ">>, <<Backtick,Backtick,Backtick,"j","s","\n","x","\n",Backtick,Backtick,Backtick>> }

\* values a rejected request or a broken stream raises
Failures ==
  { [isErrorInstance |-> TRUE, message |-> <<"q","u","o","t","a">>],
    [isErrorInstance |-> TRUE, message |-> <<>>],
    [isErrorInstance |-> FALSE, message |-> <<>>] }

\* the error Prism.highlightElement raises when it fails
PrismFailure == [isErrorInstance |-> TRUE, message |-> <<"h","i","g","h","l","i","g","h","t">>]

\* the TypeError of response.generatedImages[0].image when the list is empty
UndefinedImageError == [isErrorInstance |-> TRUE, message |-> UndefinedImageMessage]

\* resolved values of ai.models.generateImages
ImageResponses ==
  { [sdkHttpResponse |-> "ok"],
    [sdkHttpResponse |-> "ok", generatedImages |-> <<>>],
    [sdkHttpResponse |-> "ok", generatedImages |-> <<[raiFilteredReason |-> "blocked"]>>],
    [sdkHttpResponse |-> "ok", generatedImages |-> <<[image |-> [mimeType |-> "image/jpeg"]]>>],
    [sdkHttpResponse |-> "ok",
     generatedImages |-> <<[image |-> [mimeType |-> "image/jpeg", imageBytes |-> <<"Q","U","J","D">>]]>>] }

\* ------------------------------------------------------------------ state
VARIABLES
  API_KEY,         \* TRUE iff process.env.API_KEY is a non-empty string
  localStorage,    \* <<>> when CHAT_HISTORY_KEY has no item, else <<the stored array>>
  chat,            \* history of the Chat object the variable chat refers to
  chatContainer,   \* children of chatContainer, in document order
  messageInput,    \* messageInput.value
  loading,         \* sendButton.disabled = messageInput.disabled
  statusMessage,   \* statusMessage.textContent
  tasks,           \* suspended invocations of handleSendMessage, oldest first
  lastOp           \* the handler that ran last, with what it read and decided

vars == <<API_KEY, localStorage, chat, chatContainer, messageInput, loading,
          statusMessage, tasks, lastOp>>

\* ---------------------------------------------------------------- storage
loadChatHistory == IF localStorage = <<>> THEN <<>> ELSE localStorage[1]

\* saveMessageToHistory without the load of the stored array
saveMessageToHistory_Overwrites(storage, message) == << <<message>> >>

\* saveMessageToHistory that stores nothing
saveMessageToHistory_Skipped(storage, message) == storage

\* localStorage after saveMessageToHistory(message) runs on storage
saveMessageToHistory(storage, message) ==
  << Append(IF storage = <<>> THEN <<>> ELSE storage[1], message) >>

\* the filter without the test of isError
RECURSIVE geminiHistory_WithErrors(_, _)
geminiHistory_WithErrors(history, n) ==
  IF n = 0 THEN <<>>
  ELSE LET msg == history[n]
           rest == geminiHistory_WithErrors(history, n - 1)
       IN  IF Truthy(msg, "textContent")
             THEN Append(rest, [role |-> msg.role, text |-> msg.textContent])
             ELSE rest

\* the Content entries populateChatFromHistory pushes for history[1..n]
RECURSIVE geminiHistory(_, _)
geminiHistory(history, n) ==
  IF n = 0 THEN <<>>
  ELSE LET msg == history[n]
           rest == geminiHistory(history, n - 1)
       IN  IF Truthy(msg, "textContent") /\ ~IsError(msg)
             THEN Append(rest, [role |-> msg.role, text |-> msg.textContent])
             ELSE rest

\* the nodes populateChatFromHistory appends
replayNodes(history) == [i \in 1..Len(history) |-> addMessageToChat(history[i])]

\* the bubble the module body (lines 350-360) adds when the credential is missing
startupNodes ==
  IF API_KEY THEN <<>>
  ELSE << addMessageToChat([id |-> "err", role |-> "model", isError |-> TRUE,
                            textContent |-> NoApiKeyStartupText]) >>

\* ------------------------------------------------------------------- Init
\* the page has loaded for the first time: no stored history
Init ==
  /\ API_KEY \in BOOLEAN
  /\ localStorage = <<>>
  /\ chat = <<>>
  /\ chatContainer = startupNodes
  /\ messageInput = <<>>
  /\ loading = FALSE
  /\ statusMessage = <<>>
  /\ tasks = <<>>
  /\ lastOp = [op |-> "load"]

\* ---------------------------------------------------------------- helpers
RemoveAt(seq, i) == SubSeq(seq, 1, i - 1) \o SubSeq(seq, i + 1, Len(seq))

\* the tasks other than task i, once the node at position removed has left the container
OtherTasks(i, removed) ==
  LET shift(task) == IF removed > 0 /\ task.pos > removed
                       THEN [task EXCEPT !.pos = @ - 1] ELSE task
      rest == RemoveAt(tasks, i)
  IN  [j \in 1..Len(rest) |-> shift(rest[j])]

\* the container after task i's bubble, when still attached, became bubble
WithBubble(i, bubble) ==
  IF tasks[i].pos > 0 THEN [chatContainer EXCEPT ![tasks[i].pos] = bubble]
  ELSE chatContainer

\* -------------------------------------------------------------- typing
\* the user edits the textarea, which a disabled textarea does not allow
TypeInput(value) ==
  /\ ~loading
  /\ Len(loadChatHistory) + 2 <= MaxStore
  /\ messageInput' = value
  /\ lastOp' = [op |-> "type"]
  /\ UNCHANGED <<API_KEY, localStorage, chat, chatContainer, loading, statusMessage,
                 tasks>>

\* ------------------------------------------------------ handleSendMessage
ThinkingStatus == <<"A","I"," ","i","s"," ","t","h","i","n","k","i","n","g",".",".",".">>
GeneratingStatus == <<"G","e","n","e","r","a","t","i","n","g"," ","i","m","a","g","e",".",".",".">>

\* setLoading with the busy flag never set
setLoading_LeavesInputEnabled(isLoading, message) ==
  [disabled |-> FALSE, status |-> IF isLoading THEN message ELSE <<>>]

\* setLoading with the busy flag never cleared
setLoading_StaysBusy(isLoading, message) ==
  [disabled |-> TRUE, status |-> IF isLoading THEN message ELSE <<>>]

\* setLoading: the disabled flag of sendButton and messageInput, and the status text
setLoading(isLoading, message) ==
  [disabled |-> isLoading, status |-> IF isLoading THEN message ELSE <<>>]

\* the first fragment leaves the placeholder text in the bubble
EmptyHtml_KeepsPlaceholder == [marked |-> StripScripts(ThinkingText)]

\* innerHTML = ""
EmptyHtml == [raw |-> <<>>]

\* the placeholder bubble handleTextMessage builds before it opens the stream
thinkingBubble ==
  [ createMessageDiv([id |-> "ai-thinking", role |-> "model",
                      textContent |-> ThinkingText])
    EXCEPT !.children = << [tag |-> "div", cls |-> "markdown-content", errorText |-> FALSE,
                            html |-> parseMarkdown(ThinkingText)] >> ]

\* the placeholder bubble handleImageGeneration builds before it sends the request
imagePlaceholder(prompt) ==
  [ createMessageDiv([id |-> "ai-img-placeholder", role |-> "model",
                      textContent |-> GeneratingPrefix \o prompt \o GeneratingSuffix])
    EXCEPT !.children = << [tag |-> "div", cls |-> "markdown-content", errorText |-> FALSE,
                            html |-> parseMarkdown(GeneratingPrefix \o prompt \o GeneratingSuffix)] >> ]

\* the test of the credential left out
apiKeyMissing_Ignored == FALSE

\* if (!API_KEY) at the head of handleSendMessage
apiKeyMissing == ~API_KEY

\* handleSendMessage up to its first await, with the synchronous start of
\* handleTextMessage or handleImageGeneration
handleSendMessage ==
  /\ API_KEY \/ Len(chatContainer) < MaxNodes
  /\ IF apiKeyMissing
       THEN /\ chatContainer' = Append(chatContainer,
                  addMessageToChat([id |-> "err-noapikey", role |-> "model",
                                    isError |-> TRUE, textContent |-> NoApiKeySendText]))
            /\ lastOp' = [op |-> "submit", outcome |-> "noApiKey", busy |-> loading,
                          input |-> messageInput]
            /\ UNCHANGED <<API_KEY, localStorage, chat, messageInput, loading,
                           statusMessage, tasks>>
     ELSE IF Trim(messageInput) = <<>>
       THEN /\ lastOp' = [op |-> "submit", outcome |-> "empty", busy |-> loading,
                          input |-> messageInput]
            /\ UNCHANGED <<API_KEY, localStorage, chat, chatContainer, messageInput,
                           loading, statusMessage, tasks>>
     ELSE
       LET userMessageText == Trim(messageInput)
           userMessage == [id |-> "user", role |-> "user",
                           textContent |-> userMessageText]
           imagePrompt == matchKeyword(userMessageText, 1).imagePrompt
           image == dispatchesImage(userMessageText)
           bubble == IF image THEN imagePlaceholder(imagePrompt)
                     ELSE thinkingBubble
           status == IF image THEN GeneratingStatus ELSE ThinkingStatus
       IN  /\ chatContainer' = chatContainer \o <<addMessageToChat(userMessage), bubble>>
           /\ localStorage' = saveMessageToHistory(localStorage, userMessage)
           /\ messageInput' = <<>>
           /\ loading' = setLoading(TRUE, status).disabled
           /\ statusMessage' = setLoading(TRUE, status).status
           /\ tasks' = Append(tasks,
                [kind |-> IF image THEN "image" ELSE "text",
                 pc |-> IF image THEN "imagePending" ELSE "awaitStream",
                 text |-> IF image THEN imagePrompt ELSE userMessageText,
                 aiResponseText |-> <<>>,
                 firstChunkReceived |-> FALSE,
                 chunks |-> 0,
                 aiMessageBubble |-> bubble,
                 pos |-> Len(chatContainer) + 2,
                 session |-> TRUE,
                 cleared |-> FALSE])
           /\ lastOp' = [op |-> "submit", outcome |-> "accepted", busy |-> loading,
                         input |-> messageInput]
           /\ UNCHANGED <<API_KEY, chat>>

\* ------------------------------------------------------- handleTextMessage
\* await chat.sendMessageStream(...) resolves with the stream
StreamOpened(i) ==
  /\ tasks[i].pc = "awaitStream"
  /\ tasks' = [tasks EXCEPT ![i].pc = "streaming"]
  /\ lastOp' = [op |-> "streamOpened"]
  /\ UNCHANGED <<API_KEY, localStorage, chat, chatContainer, messageInput, loading,
                 statusMessage>>

\* one turn of the for-await loop
StreamChunk(i, chunkText) ==
  LET task == tasks[i]
      aiResponseText == task.aiResponseText \o chunkText
      html == IF chunkText # <<>> THEN parseMarkdown(aiResponseText)
              ELSE IF ~task.firstChunkReceived THEN EmptyHtml
              ELSE task.aiMessageBubble.children[1].html
      bubble == [task.aiMessageBubble EXCEPT !.children[1].html = html]
  IN  /\ task.pc = "streaming"
      /\ task.chunks < MaxChunks
      /\ tasks' = [tasks EXCEPT ![i].aiResponseText = aiResponseText,
                                ![i].firstChunkReceived = TRUE,
                                ![i].chunks = @ + 1,
                                ![i].aiMessageBubble = bubble]
      /\ chatContainer' = WithBubble(i, bubble)
      /\ lastOp' = [op |-> "chunk", chunkText |-> chunkText]
      /\ UNCHANGED <<API_KEY, localStorage, chat, messageInput, loading, statusMessage>>

\* the catch block without saveMessageToHistory
catchTextError_NoSave(i, error) ==
  LET errorMsg == [id |-> "err-text", role |-> "model",
                   textContent |-> errorMessageContent(error, TextFallbackReason),
                   isError |-> TRUE]
      kept == IF tasks[i].pos > 0 THEN RemoveAt(chatContainer, tasks[i].pos)
              ELSE chatContainer
  IN  [container |-> Append(kept, addMessageToChat(errorMsg)),
       storage |-> localStorage,
       removed |-> tasks[i].pos]

\* the catch block without removeChild
catchTextError_KeepsBubble(i, error) ==
  LET errorMsg == [id |-> "err-text", role |-> "model",
                   textContent |-> errorMessageContent(error, TextFallbackReason),
                   isError |-> TRUE]
  IN  [container |-> Append(chatContainer, addMessageToChat(errorMsg)),
       storage |-> saveMessageToHistory(localStorage, errorMsg),
       removed |-> 0]

\* the catch block of handleTextMessage, run by task i for error
catchTextError(i, error) ==
  LET errorMsg == [id |-> "err-text", role |-> "model",
                   textContent |-> errorMessageContent(error, TextFallbackReason),
                   isError |-> TRUE]
      kept == IF tasks[i].pos > 0 THEN RemoveAt(chatContainer, tasks[i].pos)
              ELSE chatContainer
  IN  [container |-> Append(kept, addMessageToChat(errorMsg)),
       storage |-> saveMessageToHistory(localStorage, errorMsg),
       removed |-> tasks[i].pos]

\* what the Chat object records once its stream has been consumed to the end
recordHistory(task) ==
  IF task.session
    THEN chat \o << [role |-> "user", text |-> task.text],
                    [role |-> "model", text |-> task.aiResponseText] >>
    ELSE chat

\* the final text without the marker for an empty response
finalText_NoMarker(trimmed) == trimmed

\* aiResponseText.trim() || "[AI gave an empty response]", for the trimmed text
finalText(trimmed) == IF trimmed # <<>> THEN trimmed ELSE EmptyResponseText

\* the stream ends: final processing and saving, then the finally of handleSendMessage
StreamDone(i, prismThrows) ==
  LET task == tasks[i]
      finalAiMessage == [id |-> "ai", role |-> "model",
                         textContent |-> finalText(Trim(task.aiResponseText))]
      fmt == formatAndDisplayAIResponse(finalAiMessage.textContent, prismThrows)
      bubble == [task.aiMessageBubble EXCEPT !.id = finalAiMessage.id,
                                             !.children = fmt.children]
      caught == catchTextError(i, PrismFailure)
  IN  /\ task.pc = "streaming"
      /\ prismThrows => fmt.threw
      /\ chatContainer' = IF fmt.threw THEN caught.container ELSE WithBubble(i, bubble)
      /\ localStorage' = IF fmt.threw THEN caught.storage
                         ELSE saveMessageToHistory(localStorage, finalAiMessage)
      /\ chat' = recordHistory(task)
      /\ tasks' = OtherTasks(i, IF fmt.threw THEN caught.removed ELSE 0)
      /\ loading' = setLoading(FALSE, <<>>).disabled
      /\ statusMessage' = setLoading(FALSE, <<>>).status
      /\ lastOp' = IF fmt.threw THEN [op |-> "renderFailed"]
                    ELSE [op |-> "streamDone", text |-> task.text,
                          aiResponseText |-> task.aiResponseText, cleared |-> task.cleared]
      /\ UNCHANGED <<API_KEY, messageInput>>

\* sendMessageStream rejects, or the stream raises while it is read
StreamFail(i, error) ==
  LET task == tasks[i]
      caught == catchTextError(i, error)
  IN  /\ task.pc \in {"awaitStream", "streaming"}
      /\ chatContainer' = caught.container
      /\ localStorage' = caught.storage
      /\ tasks' = OtherTasks(i, caught.removed)
      /\ loading' = setLoading(FALSE, <<>>).disabled
      /\ statusMessage' = setLoading(FALSE, <<>>).status
      /\ lastOp' = [op |-> "streamFailed", error |-> error,
                    received |-> task.firstChunkReceived,
                    partial |-> task.aiResponseText]
      /\ UNCHANGED <<API_KEY, chat, messageInput>>

\* --------------------------------------------------- handleImageGeneration
\* the catch block with the placeholder's id left on the Message it saves
catchImageError_KeepsPlaceholderId(i, error) ==
  LET content == ImageErrorPrefix \o errorMessageContent(error, ImageFallbackReason)
  IN  [bubble |-> [tasks[i].aiMessageBubble EXCEPT
                     !.error = TRUE,
                     !.children = << [tag |-> "div", cls |-> "markdown-content",
                                      errorText |-> TRUE, html |-> parseMarkdown(content)] >>],
       message |-> [id |-> tasks[i].aiMessageBubble.id, role |-> "model",
                    textContent |-> content, isError |-> TRUE]]

\* the catch block of handleImageGeneration, run by task i for error
catchImageError(i, error) ==
  LET content == ImageErrorPrefix \o errorMessageContent(error, ImageFallbackReason)
  IN  [bubble |-> [tasks[i].aiMessageBubble EXCEPT
                     !.id = "err-img-api",
                     !.error = TRUE,
                     !.children = << [tag |-> "div", cls |-> "markdown-content",
                                      errorText |-> TRUE, html |-> parseMarkdown(content)] >>],
       message |-> [id |-> "err-img-api", role |-> "model", textContent |-> content,
                    isError |-> TRUE]]

\* the try block of handleImageGeneration once generateImages has resolved with response
imageResult(i, response) ==
  LET list == response.generatedImages
      imageUrl == DataUriPrefix \o list[1].image.imageBytes
      altText == AltPrefix \o tasks[i].text
  IN  IF Has(response, "generatedImages") /\ list = <<>>
        THEN catchImageError(i, UndefinedImageError)
      ELSE IF /\ Has(response, "generatedImages")
              /\ Has(list[1], "image")
              /\ Truthy(list[1].image, "imageBytes")
        THEN [bubble |-> [tasks[i].aiMessageBubble EXCEPT
                            !.id = "ai-img",
                            !.children = << [tag |-> "img", src |-> imageUrl, alt |-> altText] >>],
              message |-> [id |-> "ai-img", role |-> "model", imageUrl |-> imageUrl,
                           altText |-> altText]]
      ELSE [bubble |-> [tasks[i].aiMessageBubble EXCEPT
                          !.id = "err-img",
                          !.error = TRUE,
                          !.children = << [tag |-> "div", cls |-> "markdown-content",
                                           errorText |-> TRUE,
                                           html |-> parseMarkdown(NoImageDataText)] >>],
            message |-> [id |-> "err-img", role |-> "model",
                         textContent |-> NoImageDataText, isError |-> TRUE]]

\* the end of handleImageGeneration and the finally of handleSendMessage
finishImage(i, result) ==
  /\ chatContainer' = WithBubble(i, result.bubble)
  /\ localStorage' = saveMessageToHistory(localStorage, result.message)
  /\ tasks' = OtherTasks(i, 0)
  /\ loading' = setLoading(FALSE, <<>>).disabled
  /\ statusMessage' = setLoading(FALSE, <<>>).status
  /\ UNCHANGED <<API_KEY, chat, messageInput>>

\* ai.models.generateImages resolves
ImageResolved(i, response) ==
  /\ tasks[i].pc = "imagePending"
  /\ finishImage(i, imageResult(i, response))
  /\ lastOp' = [op |-> "imageResolved", response |-> response, prompt |-> tasks[i].text]

\* ai.models.generateImages rejects
ImageRejected(i, error) ==
  /\ tasks[i].pc = "imagePending"
  /\ finishImage(i, catchImageError(i, error))
  /\ lastOp' = [op |-> "imageRejected", error |-> error]

\* ------------------------------------------------------------- clearChat
\* clearChat without initializeChat()
clearChat_KeepsSession ==
  /\ chatContainer' = << addMessageToChat([id |-> "sys", role |-> "model",
                                           textContent |-> ChatClearedText]) >>
  /\ localStorage' = <<>>
  /\ chat' = chat
  /\ tasks' = [j \in 1..Len(tasks) |->
                 [tasks[j] EXCEPT !.pos = 0, !.cleared = TRUE]]
  /\ lastOp' = [op |-> "clearChat", stored |-> Len(loadChatHistory), busy |-> loading]
  /\ UNCHANGED <<API_KEY, messageInput, loading, statusMessage>>

\* chatContainer.innerHTML = '', removeItem, initializeChat(), addMessageToChat
clearChat ==
  /\ chatContainer' = << addMessageToChat([id |-> "sys", role |-> "model",
                                           textContent |-> ChatClearedText]) >>
  /\ localStorage' = <<>>
  /\ chat' = <<>>
  /\ tasks' = [j \in 1..Len(tasks) |->
                 [tasks[j] EXCEPT !.pos = 0, !.session = FALSE, !.cleared = TRUE]]
  /\ lastOp' = [op |-> "clearChat", stored |-> Len(loadChatHistory), busy |-> loading]
  /\ UNCHANGED <<API_KEY, messageInput, loading, statusMessage>>

\* the click listener of clearChatButton; confirmed: what confirm() returns
confirmClearChat(confirmed) ==
  IF confirmed THEN clearChat
  ELSE /\ lastOp' = [op |-> "clearDeclined"]
       /\ UNCHANGED <<API_KEY, localStorage, chat, chatContainer, messageInput, loading,
                      statusMessage, tasks>>

\* ------------------------------------------------------------ page load
\* the page is loaded again: the module body runs and ends with populateChatFromHistory
populateChatFromHistory ==
  /\ chatContainer' = startupNodes \o replayNodes(loadChatHistory)
  /\ chat' = geminiHistory(loadChatHistory, Len(loadChatHistory))
  /\ messageInput' = <<>>
  /\ loading' = FALSE
  /\ statusMessage' = <<>>
  /\ tasks' = <<>>
  /\ lastOp' = [op |-> "load"]
  /\ UNCHANGED <<API_KEY, localStorage>>

\* ------------------------------------------------------------------ Next
Next ==
  \/ \E value \in Inputs : TypeInput(value)
  \/ handleSendMessage
  \/ \E i \in 1..Len(tasks) : StreamOpened(i)
  \/ \E i \in 1..Len(tasks), chunkText \in Fragments : StreamChunk(i, chunkText)
  \/ \E i \in 1..Len(tasks), prismThrows \in BOOLEAN : StreamDone(i, prismThrows)
  \/ \E i \in 1..Len(tasks), error \in Failures : StreamFail(i, error)
  \/ \E i \in 1..Len(tasks), response \in ImageResponses : ImageResolved(i, response)
  \/ \E i \in 1..Len(tasks), error \in Failures : ImageRejected(i, error)
  \/ \E confirmed \in BOOLEAN : confirmClearChat(confirmed)
  \/ populateChatFromHistory

Spec == Init /\ [][Next]_vars

\* the steps by which the AI service answers a request or fails it
Upstream ==
  \E i \in 1..Len(tasks) :
    \/ StreamOpened(i)
    \/ \E error \in Failures : StreamFail(i, error)
    \/ \E error \in Failures : ImageRejected(i, error)
    \/ \E response \in ImageResponses : ImageResolved(i, response)
    \/ \E prismThrows \in BOOLEAN : StreamDone(i, prismThrows)

\* the upstream call of every turn terminates: a pending request is answered or fails
FairSpec == Spec /\ WF_vars(Upstream)

\* ------------------------------------------------- classification alone
\* inputs for the classification: lead, phrase and remainder in every combination
ClassifyLeads == { <<>>, <<" ">> }
ClassifyPhrases ==
  { <<"g","e","n","e","r","a","t","e"," ","i","m","a","g","e"," ","o","f">>, <<"c","r","e","a","t","e"," ","a","n"," ","i","m","a","g","e"," ","o","f">>, <<"d","r","a","w"," ","a"," ","p","i","c","t","u","r","e"," ","o","f">>,
    <<"d","r","a","w"," ","a","n"," ","i","m","a","g","e"," ","o","f">>, <<"s","h","o","w"," ","m","e"," ","a","n"," ","i","m","a","g","e"," ","o","f">>, <<"m","a","k","e"," ","a","n"," ","i","m","a","g","e"," ","o","f">>,
    <<"G","E","N","E","R","A","T","E"," ","I","M","A","G","E"," ","O","F">>, <<"D","r","a","w"," ","A","n"," ","I","m","a","g","e"," ","O","f">>, <<"g","e","n","e","r","a","t","e"," ","i","m","a","g","e">>,
    <<"p","l","e","a","s","e"," ","d","r","a","w"," ","a"," ","p","i","c","t","u","r","e"," ","o","f">>, <<"h","i">> }
ClassifyRests == { <<>>, <<" ">>, <<" ","a"," ","c","a","t">>, <<"x"," ">>, <<"\n">> }
ClassifyInputs ==
  { lead \o phrase \o rest :
      lead \in ClassifyLeads, phrase \in ClassifyPhrases, rest \in ClassifyRests }

\* the page has loaded with a credential and the user has typed one input
InitClassify ==
  /\ API_KEY = TRUE
  /\ localStorage = <<>>
  /\ chat = <<>>
  /\ chatContainer = <<>>
  /\ messageInput \in ClassifyInputs
  /\ loading = FALSE
  /\ statusMessage = <<>>
  /\ tasks = <<>>
  /\ lastOp = [op |-> "type"]

NextClassify == handleSendMessage

SpecClassify == InitClassify /\ [][NextClassify]_vars

\* ---------------------------------------------------- final rendering alone
\* texts a stream may have accumulated: lead, an optional fenced block (tag, gap,
\* body, end), text behind it, and an optional fence that is never closed
Fence == <<Backtick, Backtick, Backtick>>
SegPres == { <<>>, <<" ">>, <<"H","e","r","e",":","\n">>, <<"n","o"," ","c","o","d","e"," ","h","e","r","e">> }
SegTags == { <<>>, <<"j","s">> }
SegGaps == { <<"\n">>, <<"\n"," "," ">> }
SegBodies == { <<>>, <<"c","o","n","s","o","l","e",".","l","o","g","(","1",")">>, <<"x","\n","\n","y">> }
SegEnds == { <<>>, <<"\n">>, <<"\n","\n">> }
SegPosts == { <<>>, <<"\n","d","o","n","e">> }
SegOpens == { <<>>, Fence \o <<"p","y","\n","y">> }

SegShapes ==
  { sh \in [pre : SegPres, block : BOOLEAN, tag : SegTags, gap : SegGaps,
            body : SegBodies, end : SegEnds, post : SegPosts, open : SegOpens] :
      ~sh.block => sh.tag = <<>> /\ sh.gap = <<"\n">> /\ sh.body = <<>> /\ sh.end = <<>> }

\* the text of a shape
Compose(sh) ==
  sh.pre
    \o (IF sh.block THEN Fence \o sh.tag \o sh.gap \o sh.body \o sh.end \o Fence ELSE <<>>)
    \o sh.post \o sh.open

SegmentInputs == { Compose(sh) : sh \in SegShapes }

\* the bubble of handleTextMessage while the stream has delivered aiResponseText
streamingBubble(aiResponseText) ==
  [ thinkingBubble EXCEPT !.children[1].html =
      IF aiResponseText = <<>> THEN EmptyHtml ELSE parseMarkdown(aiResponseText) ]

\* the turn for "hi" is being answered: the stream has delivered one of SegmentInputs
InitSegment ==
  \E aiResponseText \in SegmentInputs :
    /\ API_KEY = TRUE
    /\ localStorage = << << [id |-> "user", role |-> "user", textContent |-> <<"h","i">>] >> >>
    /\ chat = <<>>
    /\ chatContainer =
         << addMessageToChat([id |-> "user", role |-> "user", textContent |-> <<"h","i">>]),
            streamingBubble(aiResponseText) >>
    /\ messageInput = <<>>
    /\ loading = TRUE
    /\ statusMessage = ThinkingStatus
    /\ tasks = << [kind |-> "text", pc |-> "streaming", text |-> <<"h","i">>,
                   aiResponseText |-> aiResponseText, firstChunkReceived |-> TRUE,
                   chunks |-> 1, aiMessageBubble |-> streamingBubble(aiResponseText),
                   pos |-> 2, session |-> TRUE, cleared |-> FALSE] >>
    /\ lastOp = [op |-> "chunk", chunkText |-> aiResponseText]

NextSegment ==
  \E i \in 1..Len(tasks), prismThrows \in BOOLEAN : StreamDone(i, prismThrows)

SpecSegment == InitSegment /\ [][NextSegment]_vars

\* ------------------------------------------------ a turn after a turn
\* what one finished turn leaves in the store: an image turn that succeeded
\* and a text turn whose stream failed
FirstTurns ==
  { << [id |-> "user", role |-> "user", textContent |-> <<"G","e","n","e","r","a","t","e"," ","I","m","a","g","e"," ","O","f"," ","a"," ","c","a","t">>],
       [id |-> "ai-img", role |-> "model", imageUrl |-> DataUriPrefix \o <<"Q","U","J","D">>,
        altText |-> AltPrefix \o <<"a"," ","c","a","t">>] >>,
    << [id |-> "user", role |-> "user", textContent |-> <<"h","i">>],
       [id |-> "err-text", role |-> "model", textContent |-> <<"q","u","o","t","a">>,
        isError |-> TRUE] >> }

\* the page after its first turn, the next input typed in: nothing was reloaded,
\* so the Chat object is the one initializeChat() made from the empty store
InitFollowUp ==
  /\ API_KEY = TRUE
  /\ \E history \in FirstTurns :
       /\ localStorage = << history >>
       /\ chatContainer = replayNodes(history)
  /\ chat = <<>>
  /\ messageInput \in Inputs
  /\ loading = FALSE
  /\ statusMessage = <<>>
  /\ tasks = <<>>
  /\ lastOp = [op |-> "type"]

SpecFollowUp == InitFollowUp /\ [][Next]_vars

\* ================================================================ claims
TurnEndOps == {"streamDone", "renderFailed", "streamFailed", "imageResolved", "imageRejected"}

\* h2 is h with exactly one message of the given role added at the end
AppendsOne(h, h2, role) ==
  /\ Len(h2) = Len(h) + 1
  /\ SubSeq(h2, 1, Len(h)) = h
  /\ h2[Len(h2)].role = role

LastStored == loadChatHistory[Len(loadChatHistory)]

\* C1: a step that starts a turn appends exactly one user Message to the store, the
\* step that ends a turn (stream completed or failed, image returned, image response
\* without data, image request failed) appends exactly one model Message and returns
\* the controller to Idle, and no step in between appends anything.
C1_OneUserOneModelPerTurn ==
  [][ /\ Len(tasks') > Len(tasks) =>
           /\ Len(tasks') = Len(tasks) + 1
           /\ AppendsOne(loadChatHistory, loadChatHistory', "user")
      /\ (Len(tasks') < Len(tasks) /\ lastOp'.op # "load") =>
           /\ Len(tasks') = Len(tasks) - 1
           /\ lastOp'.op \in TurnEndOps
           /\ AppendsOne(loadChatHistory, loadChatHistory', "model")
           /\ ~loading'
      /\ (Len(tasks') = Len(tasks) /\ tasks # <<>>) =>
           \/ loadChatHistory' = loadChatHistory
           \/ loadChatHistory' = <<>>
    ]_vars

\* a turn has ended and left its user Message and its model Message at the end of the store
C1_Witness ==
  /\ lastOp.op \in TurnEndOps
  /\ tasks = <<>>
  /\ ~loading
  /\ Len(loadChatHistory) >= 2
  /\ loadChatHistory[Len(loadChatHistory) - 1].role = "user"
  /\ LastStored.role = "model"

\* C2: handleSendMessage invoked while the busy flag is set changes neither the store,
\* the displayed nodes, the session nor the set of outstanding requests, and at most one
\* request is outstanding in every reachable state.
C2_BusySubmitIsNoOp ==
  /\ [](Len(tasks) <= 1)
  /\ [][ (loading /\ lastOp'.op = "submit") =>
           UNCHANGED <<localStorage, chatContainer, chat, tasks, loading, statusMessage,
                       messageInput>> ]_vars

\* handleSendMessage has run while a request was outstanding
C2_Witness ==
  /\ lastOp.op = "submit"
  /\ lastOp.busy
  /\ Len(tasks) = 1
  /\ loading

\* C3: the busy flag is set as long as a request is outstanding, and every turn whose
\* upstream call terminates ends with the controller Idle: no request outstanding, busy
\* flag cleared, submission enabled again.
C3_BusyUntilDoneThenIdle ==
  /\ [](tasks # <<>> => loading /\ statusMessage # <<>>)
  /\ (tasks # <<>>) ~> (tasks = <<>> /\ ~loading /\ statusMessage = <<>>)

\* a turn has been answered by the service and the controller is Idle again
C3_Witness ==
  /\ lastOp.op \in {"streamDone", "streamFailed", "imageResolved", "imageRejected"}
  /\ tasks = <<>>
  /\ ~loading
  /\ statusMessage = <<>>

\* the characters of s from position k + 1 on, without leading and trailing white space
StrippedAfter(s, k) ==
  LET keep == {i \in (k + 1)..Len(s) : s[i] \notin WhiteSpace}
  IN  IF keep = {} THEN <<>>
      ELSE [i \in 1..(SetMax(keep) - SetMin(keep) + 1) |-> s[SetMin(keep) + i - 1]]

\* keyword is a prefix of s when case is ignored
IsPrefixIgnoringCase(keyword, s) ==
  /\ Len(keyword) <= Len(s)
  /\ \A i \in 1..Len(keyword) : LowerChar(s[i]) = keyword[i]

\* C4: for a trimmed non-empty input u the image path is dispatched, with the trimmed
\* remainder as prompt, exactly when some keyword is a case-insensitive prefix of u and
\* the remainder after the first such keyword of the list is non-empty after trimming;
\* otherwise the text path is dispatched with u itself.  "generate image of a cat"
\* gives the image path with prompt "a cat", "generate image of" gives the text path.
C4_Classification ==
  (lastOp.op = "submit" /\ lastOp.outcome = "accepted") =>
    LET u == StrippedAfter(lastOp.input, 0)
        matching == {k \in 1..Len(IMAGE_GENERATION_KEYWORDS) :
                       IsPrefixIgnoringCase(IMAGE_GENERATION_KEYWORDS[k], u)}
        first == SetMin(matching)
        remainder == StrippedAfter(u, Len(IMAGE_GENERATION_KEYWORDS[first]))
        task == tasks[Len(tasks)]
    IN  /\ tasks # <<>>
        /\ IF matching # {} /\ remainder # <<>>
             THEN task.kind = "image" /\ task.pc = "imagePending" /\ task.text = remainder
             ELSE task.kind = "text" /\ task.pc = "awaitStream" /\ task.text = u
        /\ u = <<"g","e","n","e","r","a","t","e"," ","i","m","a","g","e"," ","o","f"," ","a"," ","c","a","t">> => (task.kind = "image" /\ task.text = <<"a"," ","c","a","t">>)
        /\ u = <<"g","e","n","e","r","a","t","e"," ","i","m","a","g","e"," ","o","f">> =>
             (task.kind = "text" /\ task.text = <<"g","e","n","e","r","a","t","e"," ","i","m","a","g","e"," ","o","f">>)

\* a keyword with an empty remainder has been submitted and went to the text path
C4_Witness ==
  /\ lastOp.op = "submit"
  /\ lastOp.outcome = "accepted"
  /\ StrippedAfter(lastOp.input, 0) = <<"g","e","n","e","r","a","t","e"," ","i","m","a","g","e"," ","o","f">>
  /\ tasks # <<>>
  /\ tasks[Len(tasks)].kind = "text"

\* input is empty or holds white space only
IsBlank(input) == \A i \in 1..Len(input) : input[i] \in WhiteSpace

\* C5 as stated: in every reachable state handleSendMessage with an empty or
\* whitespace-only input displays nothing, stores nothing, starts no request and leaves
\* the busy flag alone.
C5_BlankSubmitIsNoOpEverywhere ==
  [][ (lastOp'.op = "submit" /\ IsBlank(messageInput)) =>
        UNCHANGED <<chatContainer, localStorage, tasks, loading, chat>> ]_vars

\* C5 as amended: the same, in every reachable state in which the API credential is
\* present.
C5_BlankSubmitIsNoOpWithKey ==
  [][ (API_KEY /\ lastOp'.op = "submit" /\ IsBlank(messageInput)) =>
        UNCHANGED <<chatContainer, localStorage, tasks, loading, chat>> ]_vars

\* a whitespace-only input has been submitted with the credential present
C5_Witness ==
  /\ API_KEY
  /\ lastOp.op = "submit"
  /\ lastOp.outcome = "empty"
  /\ lastOp.input # <<>>
  /\ IsBlank(lastOp.input)

\* the text of the Message a completed stream with accumulated text r is finalized as
FinalizedReply(r) ==
  IF StrippedAfter(r, 0) = <<>> THEN EmptyResponseText ELSE StrippedAfter(r, 0)

\* C6: after a text turn with input t has completed with reply r, the Upstream Context
\* built from the store ends with {user, t} followed by {model, r}.
C6_HistoryRoundTrip ==
  lastOp.op = "streamDone" =>
    LET context == geminiHistory(loadChatHistory, Len(loadChatHistory))
    IN  /\ Len(context) >= 2
        /\ context[Len(context) - 1] = [role |-> "user", text |-> lastOp.text]
        /\ context[Len(context)] =
             [role |-> "model", text |-> FinalizedReply(lastOp.aiResponseText)]

\* C7: right after clearChat the store loads as the empty sequence and the session
\* holds an empty context.
C7_ClearEmptiesStoreAndSession ==
  lastOp.op = "clearChat" => (loadChatHistory = <<>> /\ localStorage = <<>> /\ chat = <<>>)

\* clearChat has run on a store that held messages, while a request was outstanding
C7_Witness ==
  /\ lastOp.op = "clearChat"
  /\ lastOp.stored > 0
  /\ lastOp.busy

\* positions of the stored messages that carry a text and are not errors
ContextPositions(history) ==
  {i \in 1..Len(history) :
     /\ "textContent" \in DOMAIN history[i]
     /\ ~("isError" \in DOMAIN history[i] /\ history[i].isError)}

\* C8: right after startup the session context holds exactly the stored Messages with a
\* text payload that are not errors, with role and text, in stored order.
C8_StartupContext ==
  lastOp.op = "load" =>
    LET history == loadChatHistory
        positions == ContextPositions(history)
        rank(i) == Cardinality({j \in positions : j <= i})
    IN  /\ Len(chat) = Cardinality(positions)
        /\ \A i \in positions :
             chat[rank(i)] = [role |-> history[i].role, text |-> history[i].textContent]

\* startup has replayed a store that holds a text, an error and an image Message
C8_Witness ==
  /\ lastOp.op = "load"
  /\ \E i \in 1..Len(loadChatHistory) : IsError(loadChatHistory[i])
  /\ \E i \in 1..Len(loadChatHistory) : Has(loadChatHistory[i], "imageUrl")
  /\ chat # <<>>
  /\ Len(chat) < Len(loadChatHistory)

\* C9: when the stream fails, before any fragment or after some, the step removes the
\* placeholder node, appends a new error node, and appends exactly one Message to the
\* store: role model, isError, text the failure reason; none of the partial text is
\* stored or displayed.
C9_StreamFailure ==
  [][ (lastOp'.op = "streamFailed" /\ Len(tasks') < Len(tasks)) =>
        LET reason == IF lastOp'.error.isErrorInstance THEN lastOp'.error.message
                      ELSE TextFallbackReason
            errorMsg == [id |-> "err-text", role |-> "model", textContent |-> reason,
                         isError |-> TRUE]
        IN  /\ loadChatHistory' = Append(loadChatHistory, errorMsg)
            /\ \A n \in 1..Len(chatContainer') : chatContainer'[n].id # "ai-thinking"
            /\ chatContainer'[Len(chatContainer')] = addMessageToChat(errorMsg)
            /\ Len(chatContainer') =
                 Len(chatContainer) + 1
                   - Cardinality({n \in 1..Len(chatContainer) :
                                    chatContainer[n].id = "ai-thinking"})
    ]_vars

\* a stream has failed after it had delivered text
C9_Witness ==
  /\ lastOp.op = "streamFailed"
  /\ lastOp.received
  /\ lastOp.partial # <<>>
  /\ IsError(LastStored)

\* the first generated image of response carries image bytes
CarriesImageBytes(response) ==
  /\ "generatedImages" \in DOMAIN response
  /\ response.generatedImages # <<>>
  /\ "image" \in DOMAIN response.generatedImages[1]
  /\ "imageBytes" \in DOMAIN response.generatedImages[1].image
  /\ response.generatedImages[1].image.imageBytes # <<>>

\* C10: after the image request has returned, the persisted model Message is an image
\* Message exactly when the response carries image bytes, and an error Message with the
\* fixed no-image-data text when it does not (no image list, an empty image list, a
\* first image without bytes).
C10_ImageOutcome ==
  lastOp.op = "imageResolved" =>
    /\ loadChatHistory # <<>>
    /\ LastStored.role = "model"
    /\ IF CarriesImageBytes(lastOp.response)
         THEN /\ ~IsError(LastStored)
              /\ Has(LastStored, "imageUrl") /\ ~Has(LastStored, "textContent")
              /\ LastStored.imageUrl =
                   DataUriPrefix \o lastOp.response.generatedImages[1].image.imageBytes
              /\ LastStored.altText = AltPrefix \o lastOp.prompt
         ELSE /\ IsError(LastStored)
              /\ LastStored.textContent = NoImageDataText

\* C11: without the credential every submit appends one configuration-error node and
\* nothing else: no user Message is displayed or stored, no request is started, the
\* controller stays idle, and the credential never appears.
C11_NoCredentialMode ==
  /\ [](~API_KEY => /\ tasks = <<>>
                    /\ ~loading
                    /\ statusMessage = <<>>
                    /\ loadChatHistory = <<>>
                    /\ chat = <<>>
                    /\ \A n \in 1..Len(chatContainer) : chatContainer[n].role # "user")
  /\ [][~API_KEY =>
         /\ ~API_KEY'
         /\ lastOp'.op = "submit" =>
              /\ lastOp'.outcome = "noApiKey"
              /\ Len(chatContainer') = Len(chatContainer) + 1
              /\ SubSeq(chatContainer', 1, Len(chatContainer)) = chatContainer
              /\ chatContainer'[Len(chatContainer')] =
                   [id |-> "err-noapikey", role |-> "model", error |-> TRUE,
                    children |-> << [tag |-> "div", cls |-> "markdown-content",
                                     errorText |-> TRUE,
                                     html |-> parseMarkdown(ErrorMarker \o NoApiKeySendText)] >>]
              /\ UNCHANGED <<localStorage, chat, tasks, loading, statusMessage>>]_vars

\* a non-blank input was submitted without the credential, for the second time at least
C11_Witness ==
  /\ ~API_KEY
  /\ lastOp.op = "submit"
  /\ ~IsBlank(lastOp.input)
  /\ Len(chatContainer) >= 3

\* the error nodes on display that carry id
ErrorNodes(id) ==
  {n \in 1..Len(chatContainer) : chatContainer[n].error /\ chatContainer[n].id = id}

\* the stored error Messages that carry id
StoredErrors(id) ==
  {k \in 1..Len(loadChatHistory) :
     IsError(loadChatHistory[k]) /\ loadChatHistory[k].id = id}

\* C12: in every reachable state each error node on display has a stored error Message
\* of its own: for every id, the store holds at least as many error Messages with that
\* id as the container shows error nodes with it.
C12_ErrorsPersisted ==
  \A n \in 1..Len(chatContainer) :
    chatContainer[n].error =>
      Cardinality(ErrorNodes(chatContainer[n].id))
        <= Cardinality(StoredErrors(chatContainer[n].id))

\* message carries a non-empty text
HasText(message) == "textContent" \in DOMAIN message /\ message.textContent # <<>>

\* message carries an image url
HasImage(message) == "imageUrl" \in DOMAIN message /\ message.imageUrl # <<>>

\* C13: in every reachable state every stored Message has exactly one payload kind, a
\* non-empty text or an image url, and every stored error Message has a text payload.
C13_OnePayloadKind ==
  \A k \in 1..Len(loadChatHistory) :
    /\ HasText(loadChatHistory[k]) # HasImage(loadChatHistory[k])
    /\ IsError(loadChatHistory[k]) => HasText(loadChatHistory[k])

\* C14: every step that changes the stored log either adds exactly one Message at its
\* end and leaves the earlier entries as they were, or empties the log.
C14_AppendOnly ==
  [][localStorage' # localStorage =>
       \/ /\ Len(loadChatHistory') = Len(loadChatHistory) + 1
          /\ SubSeq(loadChatHistory', 1, Len(loadChatHistory)) = loadChatHistory
       \/ loadChatHistory' = <<>>]_vars

\* an image was appended behind the user Message that asked for it
C14_Witness ==
  /\ lastOp.op = "imageResolved"
  /\ Len(loadChatHistory) >= 2
  /\ HasImage(LastStored)
  /\ loadChatHistory[Len(loadChatHistory) - 1].role = "user"

\* ids of the transient nodes
PlaceholderIds == {"ai-thinking", "ai-img-placeholder"}

\* C15: in every reachable state no stored Message carries a placeholder id, the
\* "AI is thinking" text or a "Generating an image for" text.
C15_NoPlaceholderStored ==
  \A k \in 1..Len(loadChatHistory) :
    /\ loadChatHistory[k].id \notin PlaceholderIds
    /\ HasText(loadChatHistory[k]) =>
         /\ loadChatHistory[k].textContent # ThinkingText
         /\ ~StartsWith(loadChatHistory[k].textContent, GeneratingPrefix)

\* a placeholder is on display while the store holds the user Message of its turn
C15_Witness ==
  /\ \E n \in 1..Len(chatContainer) : chatContainer[n].id \in PlaceholderIds
  /\ loadChatHistory # <<>>
  /\ LastStored.role = "user"
  /\ tasks # <<>>

\* ------------------------------------------------------------- segments
Prose(text) == [kind |-> "Prose", text |-> text]
Code(language, content) == [kind |-> "Code", language |-> language, content |-> content]

\* the Segment a child of a final bubble displays
SegmentOf(child) ==
  IF child.tag = "pre" THEN Code(child.language, child.code)
  ELSE Prose(child.html.marked)

\* the Segments of the bubble the finished turn of SpecSegment displays
ShownSegments ==
  [k \in 1..Len(chatContainer[2].children) |-> SegmentOf(chatContainer[2].children[k])]

\* the Prose segment of a run of text, none for a blank run
ProseOf(run) ==
  IF StrippedAfter(run, 0) = <<>> THEN <<>> ELSE << Prose(StrippedAfter(run, 0)) >>

\* s without its white space
Squeeze(s) == SelectSeq(s, LAMBDA c : c \notin WhiteSpace)

\* a Segment as source text: Prose as its text, Code as its fenced region
Render(segment) ==
  IF segment.kind = "Code"
    THEN Fence \o (IF segment.language = PlainText THEN <<>> ELSE segment.language)
               \o <<"\n">> \o segment.content \o <<"\n">> \o Fence
    ELSE segment.text

RECURSIVE ConcatRendered(_)
ConcatRendered(segments) ==
  IF segments = <<>> THEN <<>>
  ELSE Render(Head(segments)) \o <<"\n">> \o ConcatRendered(Tail(segments))

\* C16: for a non-blank final text with balanced fences the displayed segments, rendered
\* back (Prose as its text, Code as its fenced region) and concatenated, reproduce the
\* text up to white space, and a fenced region of the text is displayed as a Code segment.
C16_RoundTrip ==
  lastOp.op = "streamDone" =>
    \A sh \in SegShapes :
      (/\ sh.open = <<>>
       /\ Compose(sh) = lastOp.aiResponseText
       /\ StrippedAfter(lastOp.aiResponseText, 0) # <<>>) =>
        /\ Squeeze(ConcatRendered(ShownSegments)) = Squeeze(lastOp.aiResponseText)
        /\ sh.block => \E k \in 1..Len(ShownSegments) : ShownSegments[k].kind = "Code"

\* C17: a fence that is never closed yields no Code segment: the last segment is the
\* Prose of the text from the end of the last closed block (or from the start) to the end
\* of the input, opening marker included, and only the closed block is displayed as Code.
C17_UnterminatedFenceIsProse ==
  lastOp.op = "streamDone" =>
    \A sh \in SegShapes :
      (sh.open # <<>> /\ Compose(sh) = lastOp.aiResponseText) =>
        /\ ShownSegments # <<>>
        /\ << ShownSegments[Len(ShownSegments)] >> =
             ProseOf(IF sh.block THEN sh.post \o sh.open
                     ELSE sh.pre \o sh.post \o sh.open)
        /\ \A k \in 1..Len(ShownSegments) :
             ShownSegments[k].kind = "Code" =>
               sh.block /\ k < Len(ShownSegments) /\ ShownSegments[k].content = sh.body

\* a closed block with code was followed by a fence that is never closed
C17_Witness ==
  /\ lastOp.op = "streamDone"
  /\ Len(ShownSegments) >= 2
  /\ ShownSegments[1].kind = "Code"
  /\ \E sh \in SegShapes :
       sh.open # <<>> /\ sh.block /\ sh.body # <<>> /\ Compose(sh) = lastOp.aiResponseText

\* s without one leading and one trailing newline
DropNewlines(s) ==
  LET a == IF s # <<>> /\ s[1] = "\n" THEN Tail(s) ELSE s
  IN  IF a # <<>> /\ a[Len(a)] = "\n" THEN SubSeq(a, 1, Len(a) - 1) ELSE a

\* the Code segments among segments, in order
CodeSegments(segments) == SelectSeq(segments, LAMBDA g : g.kind = "Code")

ExampleText == <<"H","e","r","e",":","\n">> \o Fence \o <<"j","s","\n","c","o","n","s","o","l","e",".","l","o","g","(","1",")","\n">> \o Fence \o <<"\n","d","o","n","e">>

\* C18: a closed fenced region is displayed as exactly one Code segment whose language is
\* the declared tag, or plaintext without one, and whose content is the fenced text less
\* one leading and one trailing newline; the example text yields Prose, Code, Prose.
C18_CodeSegmentPerRegion ==
  lastOp.op = "streamDone" =>
    /\ \A sh \in SegShapes :
         (sh.block /\ sh.open = <<>> /\ Compose(sh) = lastOp.aiResponseText) =>
           CodeSegments(ShownSegments) =
             << Code(IF sh.tag = <<>> THEN PlainText ELSE sh.tag,
                     DropNewlines(sh.gap \o sh.body \o sh.end)) >>
    /\ lastOp.aiResponseText = ExampleText =>
         ShownSegments = << Prose(<<"H","e","r","e",":">>), Code(<<"j","s">>, <<"c","o","n","s","o","l","e",".","l","o","g","(","1",")">>),
                            Prose(<<"d","o","n","e">>) >>

\* C19: a final text without any fence is displayed as exactly one Prose segment: the
\* marker "[AI gave an empty response]" when the text is blank, the trimmed text otherwise.
C19_ZeroSegmentFallback ==
  lastOp.op = "streamDone" =>
    \A sh \in SegShapes :
      (~sh.block /\ sh.open = <<>> /\ Compose(sh) = lastOp.aiResponseText) =>
        ShownSegments =
          IF StrippedAfter(lastOp.aiResponseText, 0) = <<>>
            THEN << Prose(EmptyResponseText) >>
            ELSE << Prose(StrippedAfter(lastOp.aiResponseText, 0)) >>

\* a blank text and a text without code have both been finalized
C19_Witness ==
  /\ lastOp.op = "streamDone"
  /\ lastOp.aiResponseText \in { <<" ">>, <<"n","o"," ","c","o","d","e"," ","h","e","r","e">> }
  /\ Len(ShownSegments) = 1
  /\ ShownSegments[1].kind = "Prose"

\* C20: whenever the controller is idle, reloading the page and replaying the store
\* yields the nodes the live session is showing: the same nodes in the same order, with
\* the same id, role, error flag and children.
C20_ReplayEqualsLive ==
  (tasks = <<>> /\ ~loading) =>
    startupNodes \o replayNodes(loadChatHistory) = chatContainer

\* C21: at every text-path dispatch the history the live Chat object holds, which
\* is sent with the new user text, equals the text, non-error Messages of the
\* store that precede the new user Message, in log order.
C21_LiveContextIsUpstreamContext ==
  [][(/\ lastOp'.op = "submit"
      /\ lastOp'.outcome = "accepted"
      /\ tasks'[Len(tasks')].kind = "text")
     => chat = geminiHistory(loadChatHistory, Len(loadChatHistory))]_vars

\* the request a task waits for
RequestKind(task) ==
  IF task.pc \in {"awaitStream", "streaming"} THEN "text"
  ELSE IF task.pc = "imagePending" THEN "image"
  ELSE "none"

\* C22: the step that accepts a turn appends the user Message, with the trimmed
\* input as its text, to the store and issues exactly one request, a text stream or
\* an image generation; in every state a request is outstanding while the store
\* already ends with the user Message of its turn (unless clearChat emptied the
\* store meanwhile), and the request stays of the kind it was issued as.
C22_StoredThenOneRequest ==
  [][ /\ (lastOp'.op = "submit" /\ lastOp'.outcome = "accepted") =>
           /\ loadChatHistory' =
                Append(loadChatHistory,
                       [id |-> "user", role |-> "user",
                        textContent |-> Trim(messageInput)])
           /\ Len(tasks') = Len(tasks) + 1
           /\ SubSeq(tasks', 1, Len(tasks)) = tasks
           /\ RequestKind(tasks'[Len(tasks')]) \in {"text", "image"}
      /\ \A i \in 1..Len(tasks') :
           /\ RequestKind(tasks'[i]) = tasks'[i].kind
           /\ ~tasks'[i].cleared =>
                /\ loadChatHistory' # <<>>
                /\ loadChatHistory'[Len(loadChatHistory')].role = "user"
      /\ Len(tasks') > Len(tasks) => lastOp'.op = "submit"
    ]_vars

\* an image request is outstanding and the store ends with the user Message
C22_Witness ==
  /\ lastOp.op = "submit"
  /\ lastOp.outcome = "accepted"
  /\ Len(tasks) = 1
  /\ tasks[1].kind = "image"
  /\ tasks[1].pc = "imagePending"
  /\ LastStored = [id |-> "user", role |-> "user", textContent |-> Trim(lastOp.input)]

\* C24: the stream opens with the empty accumulated string and the placeholder in
\* the bubble; each fragment appends itself to the accumulated string; a non-empty
\* fragment puts the render of the accumulated string in the bubble, an empty one
\* renders nothing; the first fragment, empty or not, removes the placeholder
\* content, and no later fragment clears the bubble again.
C24_StreamReducer ==
  [][ /\ lastOp'.op = "streamOpened" =>
           /\ tasks'[1].aiResponseText = <<>>
           /\ ~tasks'[1].firstChunkReceived
           /\ tasks'[1].aiMessageBubble.children[1].html = [marked |-> ThinkingText]
      /\ lastOp'.op = "chunk" =>
           LET chunkText == lastOp'.chunkText
               before == tasks[1].aiMessageBubble.children[1].html
               after == tasks'[1].aiMessageBubble.children[1].html
           IN  /\ tasks'[1].aiResponseText = tasks[1].aiResponseText \o chunkText
               /\ tasks'[1].firstChunkReceived
               /\ chunkText # <<>> => after = parseMarkdown(tasks'[1].aiResponseText)
               /\ chunkText = <<>> =>
                    after = IF tasks[1].firstChunkReceived THEN before
                            ELSE [raw |-> <<>>]
               /\ tasks'[1].pos > 0 =>
                    chatContainer'[tasks'[1].pos] = tasks'[1].aiMessageBubble
    ]_vars

\* an empty second fragment arrived after a non-empty first one: the bubble still
\* shows the render of the first
C24_Witness ==
  /\ lastOp.op = "chunk"
  /\ lastOp.chunkText = <<>>
  /\ tasks[1].chunks = 2
  /\ tasks[1].aiResponseText # <<>>
  /\ tasks[1].aiMessageBubble.children[1].html = parseMarkdown(tasks[1].aiResponseText)

\* C23: the step that ends a stream which completed normally appends one model
\* Message that is no error and whose text is the accumulated text of all
\* fragments, or the marker when the accumulated text is empty; the text is never
\* the empty string.
C23_PersistsAccumulatedText ==
  [][ lastOp'.op \in {"streamDone", "renderFailed"} =>
        LET accumulated == tasks[1].aiResponseText
            stored == loadChatHistory'[Len(loadChatHistory')]
        IN  /\ AppendsOne(loadChatHistory, loadChatHistory', "model")
            /\ ~IsError(stored)
            /\ Has(stored, "textContent")
            /\ stored.textContent # <<>>
            /\ stored.textContent =
                 IF accumulated = <<>> THEN EmptyResponseText ELSE accumulated
    ]_vars

\* C25: when the stream of a text turn has completed, the turn ends with its bubble
\* still displayed under the id of the finalized Message and with the finalized
\* text Message, not an error Message, appended to the store, whether or not the
\* highlighting of a code block throws.
C25_RenderFailureRecovered ==
  [][ lastOp'.op \in {"streamDone", "renderFailed"} =>
        /\ loadChatHistory' =
             Append(loadChatHistory,
                    [id |-> "ai", role |-> "model",
                     textContent |-> FinalizedReply(tasks[1].aiResponseText)])
        /\ Len(chatContainer') = Len(chatContainer)
        /\ tasks[1].pos > 0 => chatContainer'[tasks[1].pos].id = "ai"
        /\ \A n \in 1..Len(chatContainer') : chatContainer'[n].id # "err-text"
    ]_vars

\* C26: whenever no request is outstanding and the busy flag is clear, every stored
\* model Message is immediately preceded by a user Message, so the store never
\* begins with a reply.
C26_CompleteTurnsAtIdle ==
  (tasks = <<>> /\ ~loading) =>
    \A k \in 1..Len(loadChatHistory) :
      loadChatHistory[k].role = "model" =>
        (k > 1 /\ loadChatHistory[k - 1].role = "user")

====
